---- MODULE Spec2Model ----
(***************************************************************************)
(* Model of preprocessing/data_explosion.py: the tokenizer, the row        *)
(* aligner, explode_aligned_columns and one_hot_multivalue_columns.        *)
(*                                                                         *)
(* Text is a sequence of one-character strings (<<"a", ",", "b">> is       *)
(* "a,b"), so that splitting, trimming, joining and renaming act on        *)
(* characters as the Python code does.  A cell of a table is a record      *)
(* [tag, s, items]: a missing value (None/NaN), a string, an int, or a     *)
(* tuple / list of cells.  A table is [cols, rows]: the ordered column     *)
(* names and the ordered rows, each row a function from column name to     *)
(* cell.                                                                   *)
(***************************************************************************)
EXTENDS Integers, Sequences, FiniteSets, TLC

VARIABLES
    op,                   \* which entry point this run calls
    df,                   \* the caller's table (argument df)
    columns,              \* argument columns
    sep,                  \* argument sep
    keep_empty_rows,      \* argument keep_empty_rows
    strict_equal_lengths, \* argument strict_equal_lengths
    min_count,            \* argument min_count
    prefix_map,           \* argument prefix_map
    min_share,            \* argument min_share, a fraction [num, den]
    toks,                 \* tokenizer round trip: the token sequence joined
    pc,                   \* position in the running function
    split_cols,           \* explode: local split_cols
    combined,             \* explode: local combined (grows row by row)
    ci,                   \* one_hot, detect: how many columns the loop has done
    candidate_columns,    \* detect: argument candidate_columns, rebound at line 33
    flagged,              \* detect: local flagged
    out,                  \* local out
    out_is_df,            \* local out names the caller's table itself, not a copy
    err,                  \* the exception raised, if any
    ret                   \* the value returned, if any

\* the arguments of the call that no statement assigns to or writes into
args == <<op, columns, sep, keep_empty_rows, strict_equal_lengths, min_count,
          prefix_map, min_share, toks>>

vars == <<args, df, pc, split_cols, combined, ci, candidate_columns, flagged, out, out_is_df,
          err, ret>>

---------------------------------------------------------------------------
(* Bounds *)

MaxTokLen == 3      \* characters per token in the tokenizer round trip
MaxToks == 2        \* tokens per sequence in the tokenizer round trip
MaxRows == 2        \* rows of an input table given to explode
MaxHotRows == 2     \* rows of an input table given to one_hot
MaxMinCount == 2    \* largest min_count given to one_hot
MaxDetectRows == 2  \* rows of an input table given to detect

---------------------------------------------------------------------------
(* Text *)

Alphabet == {"a", " ", ","}

Seps == {",", " "}

DefaultSep == ","

RECURSIVE StringsUpTo(_)
StringsUpTo(n) ==
    IF n = 0 THEN {<<>>}
    ELSE LET shorter == StringsUpTo(n - 1)
         IN  shorter \cup {Append(s, ch) : s \in shorter, ch \in Alphabet}

RECURSIVE SeqsUpTo(_, _)
SeqsUpTo(S, n) ==
    IF n = 0 THEN {<<>>}
    ELSE LET shorter == SeqsUpTo(S, n - 1)
         IN  shorter \cup {Append(q, e) : q \in shorter, e \in S}

IsSpace(ch) == ch = " "

\* str.strip(): leading and trailing whitespace removed
RECURSIVE lstrip(_)
lstrip(s) == IF s # <<>> /\ IsSpace(Head(s)) THEN lstrip(Tail(s)) ELSE s

RECURSIVE rstrip(_)
rstrip(s) ==
    IF s # <<>> /\ IsSpace(s[Len(s)]) THEN rstrip(SubSeq(s, 1, Len(s) - 1)) ELSE s

strip(s) == rstrip(lstrip(s))

\* str.split(sep) for a one-character sep: always at least one piece
RECURSIVE split(_, _)
split(s, d) ==
    IF \A i \in 1..Len(s) : s[i] # d THEN <<s>>
    ELSE LET i == CHOOSE i \in 1..Len(s) : s[i] = d /\ \A j \in 1..(i - 1) : s[j] # d
         IN  <<SubSeq(s, 1, i - 1)>> \o split(SubSeq(s, i + 1, Len(s)), d)

\* sep.join(parts)
RECURSIVE join(_, _)
join(parts, d) ==
    IF parts = <<>> THEN <<>>
    ELSE IF Len(parts) = 1 THEN parts[1]
    ELSE parts[1] \o <<d>> \o join(Tail(parts), d)

\* str.replace(old, new) for one-character old and new
replace(s, old, new) == [i \in 1..Len(s) |-> IF s[i] = old THEN new ELSE s[i]]

Range(q) == {q[i] : i \in 1..Len(q)}

Max(S) == CHOOSE m \in S : \A n \in S : n <= m

Min(S) == CHOOSE m \in S : \A n \in S : m <= n

RECURSIVE Flatten(_)
Flatten(qq) == IF qq = <<>> THEN <<>> ELSE Head(qq) \o Flatten(Tail(qq))

---------------------------------------------------------------------------
(* Cells *)

NA == [tag |-> "na", s |-> <<>>, items |-> <<>>]
Str(t) == [tag |-> "str", s |-> t, items |-> <<>>]
IntCell(digits) == [tag |-> "int", s |-> digits, items |-> <<>>]
Tuple(cells) == [tag |-> "tuple", s |-> <<>>, items |-> cells]
List(cells) == [tag |-> "list", s |-> <<>>, items |-> cells]

\* pd.isna / Series.notna on one cell
isna(x) == x.tag = "na"

\* str(x) of a scalar cell
str(x) == x.s

---------------------------------------------------------------------------
(* Tokenizer *)

\* faulty variant: keeps the blank pieces
split_to_list_keep_blank(x, d) ==
    IF isna(x) THEN <<>>
    ELSE LET parts == split(str(x), d)
         IN  [i \in 1..Len(parts) |-> strip(parts[i])]

_split_to_list(x, d) ==
    IF isna(x) THEN <<>>
    ELSE LET parts == split(str(x), d)
         IN  SelectSeq([i \in 1..Len(parts) |-> strip(parts[i])], LAMBDA p : p # <<>>)

\* A token as the tokenizer produces it: trimmed, non-empty, free of d
IsToken(t, d) == t # <<>> /\ strip(t) = t /\ \A i \in 1..Len(t) : t[i] # d

Tokens(d) == {t \in StringsUpTo(MaxTokLen) : IsToken(t, d)}

NoTable == [cols |-> <<>>, rows |-> <<>>]
NoErr == [kind |-> "none", at |-> "", row |-> -1, lengths |-> {}]
NoValue == <<>>

\* a fraction num/den, den > 0
Frac(n, d) == [num |-> n, den |-> d]

\* min_share: float = 0.01
DefaultMinShare == Frac(1, 100)

\* candidate_columns = None, and candidate_columns given as a list of names
NoCandidates == [given |-> FALSE, names |-> <<>>]
Candidates(names) == [given |-> TRUE, names |-> names]

InitTokenize ==
    /\ op = "tokenize"
    /\ sep \in Seps
    /\ toks \in SeqsUpTo(Tokens(sep), MaxToks)
    /\ df = NoTable
    /\ columns = <<>>
    /\ keep_empty_rows = FALSE
    /\ strict_equal_lengths = FALSE
    /\ min_count = 0
    /\ prefix_map = {}
    /\ min_share = DefaultMinShare
    /\ candidate_columns = NoCandidates
    /\ flagged = <<>>
    /\ pc = "join"
    /\ split_cols = <<>>
    /\ combined = <<>>
    /\ ci = 0
    /\ out = NoTable
    /\ out_is_df = FALSE
    /\ err = NoErr
    /\ ret = NoValue

\* the caller rejoins a token sequence with the delimiter
Rejoin ==
    /\ op = "tokenize"
    /\ pc = "join"
    /\ out' = Str(join(toks, sep))
    /\ pc' = "tokenize"
    /\ UNCHANGED <<args, df, out_is_df, candidate_columns, flagged, split_cols, combined, ci, err, ret>>

\* _split_to_list on the rejoined cell
Tokenize ==
    /\ op = "tokenize"
    /\ pc = "tokenize"
    /\ ret' = _split_to_list(out, sep)
    /\ pc' = "done"
    /\ UNCHANGED <<args, df, out_is_df, candidate_columns, flagged, split_cols, combined, ci, out, err>>

NextTokenize == Rejoin \/ Tokenize

SpecTokenize == InitTokenize /\ [][NextTokenize]_vars

\* C10: tokenizing the rejoin of a sequence of tokens (trimmed, non-empty, free of
\* the delimiter) returns exactly that sequence, in order.
C10_TokenizeRejoin ==
    (op = "tokenize" /\ pc = "done") => ret = toks

C10_Witness ==
    /\ op = "tokenize"
    /\ pc = "done"
    /\ sep = ","
    /\ toks = << <<"a", " ", "a">>, <<"a">> >>
    /\ out = Str(<<"a", " ", "a", ",", "a">>)
    /\ ret = toks

---------------------------------------------------------------------------
(* Tables *)

ID == <<"i", "d">>
X == <<"X">>
Y == <<"Y">>
W == <<"W">>
COMBINED == <<"_", "c", "o", "m", "b", "i", "n", "e", "d">>

Digits == <<"1", "2", "3", "4", "5", "6", "7", "8", "9">>

\* the cells column X of an input table holds: missing, "a", "a, b", "a,,b"
\* and ","
ExplodeCells ==
    { NA,
      Str(<<"a">>),
      Str(<<"a", ",", " ", "b">>),
      Str(<<"a", ",", ",", "b">>),
      Str(<<",">>) }

\* the cells column Y holds: missing, "a" and "a, b"
ExplodeCellsY == { NA, Str(<<"a">>), Str(<<"a", ",", " ", "b">>) }

\* the tables given to explode: columns id, X, Y, the id of a row its position
ExplodeTables ==
    UNION { { [cols |-> <<ID, X, Y>>,
               rows |-> [i \in 1..n |->
                           (ID :> IntCell(<<Digits[i]>>)) @@ (X :> xs[i]) @@ (Y :> ys[i])]] :
              xs \in [1..n -> ExplodeCells], ys \in [1..n -> ExplodeCellsY] } :
            n \in 0..MaxRows }

ExplodeColumns == { <<>>, <<X>>, <<X, Y>>, <<Y, X>>, <<X, W>> }

\* tables whose third column has the name of the temporary column, "_combined"
ExplodeTablesCombined ==
    UNION { { [cols |-> <<ID, X, COMBINED>>,
               rows |-> [i \in 1..n |->
                           (ID :> IntCell(<<Digits[i]>>)) @@ (X :> xs[i]) @@ (COMBINED :> ys[i])]] :
              xs \in [1..n -> ExplodeCells], ys \in [1..n -> ExplodeCellsY] } :
            n \in 0..MaxRows }

\* the selections made on them: the column "_combined" left out, and selected
ExplodeColumnsCombined == { <<X>>, <<X, COMBINED>> }

\* faulty variant: no copy is made, the result is the table itself
copy_alias(t) == [table |-> t, same |-> TRUE]

\* df.copy(): a table with the same content that is another object
copy(t) == [table |-> t, same |-> FALSE]

\* DataFrame.assign(name=values) / out[name] = values: an existing column is
\* written over in place, a new one is appended
SetColumn(t, name, values) ==
    [cols |-> IF name \in Range(t.cols) THEN t.cols ELSE Append(t.cols, name),
     rows |-> [i \in 1..Len(t.rows) |->
                 [c \in DOMAIN t.rows[i] \cup {name} |->
                    IF c = name THEN values[i] ELSE t.rows[i][c]]]]

\* DataFrame.drop(columns=[name])
DropColumn(t, name) ==
    [cols |-> SelectSeq(t.cols, LAMBDA c : c # name),
     rows |-> [i \in 1..Len(t.rows) |->
                 [c \in DOMAIN t.rows[i] \ {name} |-> t.rows[i][c]]]]

Column(t, name) == [i \in 1..Len(t.rows) |-> t.rows[i][name]]

---------------------------------------------------------------------------
(* Row aligner *)

_align_lists(row_lists) ==
    LET max_len == IF row_lists = <<>> THEN 0
                   ELSE Max({Len(row_lists[c]) : c \in 1..Len(row_lists)})
    IN  [c \in 1..Len(row_lists) |->
           row_lists[c] \o [p \in 1..(max_len - Len(row_lists[c])) |-> NA]]

\* list(zip(*aligned)): as many tuples as the shortest list has elements
zip(aligned) ==
    IF aligned = <<>> THEN <<>>
    ELSE [p \in 1..Min({Len(aligned[c]) : c \in 1..Len(aligned)}) |->
            Tuple([c \in 1..Len(aligned) |-> aligned[c][p]])]

\* faulty variant: keeps a tuple only when none of its values is None or blank
NotAnyNone(t) ==
    \A j \in 1..Len(t.items) : ~isna(t.items[j]) /\ strip(str(t.items[j])) # <<>>

\* the post-filter of _combine_row
NotAllNone(t) ==
    \E j \in 1..Len(t.items) : ~isna(t.items[j]) /\ strip(str(t.items[j])) # <<>>

\* faulty variant: raises only when more than two lengths differ
strict_check_two(lengths) == Cardinality(lengths) > 2

strict_check(lengths) == Cardinality(lengths) > 1

\* _combine_row(idx), idx counted from 0, on the token lists of split
_combine_row(sc, cols, strict, idx) ==
    LET lists == [c \in 1..Len(cols) |->
                    [p \in 1..Len(sc[cols[c]][idx + 1]) |->
                       Str(sc[cols[c]][idx + 1][p])]]
        lengths == {Len(lists[c]) : c \in 1..Len(lists)}
    IN  IF strict /\ strict_check(lengths)
        THEN [raised |-> TRUE, lengths |-> lengths, tuples |-> <<>>]
        ELSE LET aligned == IF strict THEN lists ELSE _align_lists(lists)
             IN  [raised |-> FALSE, lengths |-> lengths,
                  tuples |-> SelectSeq(zip(aligned), NotAllNone)]

---------------------------------------------------------------------------
(* explode_aligned_columns *)

\* faulty variant: emits the tuples of a row last to first
explode_rows_reversed(t, name) ==
    [cols |-> t.cols,
     rows |-> Flatten([i \in 1..Len(t.rows) |->
                LET items == t.rows[i][name].items
                IN  IF items = <<>> THEN <<[t.rows[i] EXCEPT ![name] = NA]>>
                    ELSE [p \in 1..Len(items) |->
                            [t.rows[i] EXCEPT ![name] = items[Len(items) + 1 - p]]]])]

\* DataFrame.explode(name, ignore_index=True) on a column of lists: one row per
\* element, the other columns repeated, an empty list giving one row with NaN
explode_rows(t, name) ==
    [cols |-> t.cols,
     rows |-> Flatten([i \in 1..Len(t.rows) |->
                LET items == t.rows[i][name].items
                IN  IF items = <<>> THEN <<[t.rows[i] EXCEPT ![name] = NA]>>
                    ELSE [p \in 1..Len(items) |-> [t.rows[i] EXCEPT ![name] = items[p]]]])]

\* out[out["_combined"].notna()]
filter_notna(t, name) ==
    [cols |-> t.cols, rows |-> SelectSeq(t.rows, LAMBDA r : ~isna(r[name]))]

\* pd.DataFrame(data, columns=cols): data the list of the _combined cells.
\* An empty list gives an empty frame.  A list whose first element is a tuple
\* is read as rows, a NaN among them giving a row of missing values.  Any other
\* list is read as one column of len(data) values, and the constructor raises
\* when the number of names is not 1.
DataFrameOf(data, cols) ==
    IF data = <<>> THEN [raised |-> FALSE, rows |-> <<>>]
    ELSE IF data[1].tag = "tuple"
    THEN [raised |-> FALSE,
          rows |-> [j \in 1..Len(data) |->
                      [c \in Range(cols) |->
                         LET k == CHOOSE k \in 1..Len(cols) : cols[k] = c
                         IN  IF data[j].tag = "tuple" THEN data[j].items[k] ELSE NA]]]
    ELSE IF Len(cols) # 1 THEN [raised |-> TRUE, rows |-> <<>>]
    ELSE [raised |-> FALSE, rows |-> [j \in 1..Len(data) |-> [c \in Range(cols) |-> data[j]]]]

\* lines 130-133: out[col] = out["_combined"]
unpack_single(t, cols) ==
    [raised |-> FALSE, table |-> SetColumn(t, cols[1], Column(t, COMBINED))]

RECURSIVE SetColumns(_, _, _)
SetColumns(t, cols, expanded) ==
    IF cols = <<>> THEN t
    ELSE SetColumns(SetColumn(t, Head(cols), [j \in 1..Len(t.rows) |-> expanded[j][Head(cols)]]),
                    Tail(cols), expanded)

\* lines 134-137: expanded = pd.DataFrame(...); out[c] = expanded[c]
unpack_multi(t, cols) ==
    LET expanded == DataFrameOf(Column(t, COMBINED), cols)
    IN  IF expanded.raised THEN [raised |-> TRUE, table |-> t]
        ELSE [raised |-> FALSE, table |-> SetColumns(t, cols, expanded.rows)]

\* lines 129-137
unpack(t, cols) == IF Len(cols) = 1 THEN unpack_single(t, cols) ELSE unpack_multi(t, cols)

InitExplode ==
    /\ op = "explode"
    /\ \/ df \in ExplodeTables /\ columns \in ExplodeColumns
       \/ df \in ExplodeTablesCombined /\ columns \in ExplodeColumnsCombined
    /\ sep = DefaultSep
    /\ keep_empty_rows \in BOOLEAN
    /\ strict_equal_lengths \in BOOLEAN
    /\ min_count = 0
    /\ prefix_map = {}
    /\ min_share = DefaultMinShare
    /\ candidate_columns = NoCandidates
    /\ flagged = <<>>
    /\ toks = <<>>
    /\ pc = "split"
    /\ split_cols = <<>>
    /\ combined = <<>>
    /\ ci = 0
    /\ out = NoTable
    /\ out_is_df = FALSE
    /\ err = NoErr
    /\ ret = NoValue

\* lines 103-106: out = df.copy(); split_cols = {c: out[c].apply(...)}.
\* out[c] raises KeyError on a name that is no column.
SplitColumns ==
    /\ op = "explode"
    /\ pc = "split"
    /\ out' = copy(df).table
    /\ out_is_df' = copy(df).same
    /\ IF \E k \in 1..Len(columns) : columns[k] \notin Range(df.cols)
       THEN /\ pc' = "raised"
            /\ err' = [kind |-> "KeyError", at |-> "split_cols", row |-> -1, lengths |-> {}]
            /\ UNCHANGED split_cols
       ELSE /\ pc' = "combine"
            /\ split_cols' = [c \in Range(columns) |->
                                [i \in 1..Len(df.rows) |-> _split_to_list(df.rows[i][c], sep)]]
            /\ UNCHANGED err
    /\ UNCHANGED <<args, df, candidate_columns, flagged, combined, ci, ret>>

\* line 123, one element of the comprehension: _combine_row(i)
CombineRow ==
    /\ op = "explode"
    /\ pc = "combine"
    /\ Len(combined) < Len(out.rows)
    /\ LET idx == Len(combined)
           r == _combine_row(split_cols, columns, strict_equal_lengths, idx)
       IN  IF r.raised
           THEN /\ pc' = "raised"
                /\ err' = [kind |-> "ValueError", at |-> "_combine_row", row |-> idx,
                           lengths |-> r.lengths]
                /\ UNCHANGED combined
           ELSE /\ combined' = Append(combined, r.tuples)
                /\ UNCHANGED <<pc, err>>
    /\ UNCHANGED <<args, df, out_is_df, candidate_columns, flagged, split_cols, ci, out, ret>>

\* line 124: out.assign(_combined=combined).explode("_combined", ignore_index=True),
\* a new table bound to out
AssignExplode ==
    /\ op = "explode"
    /\ pc = "combine"
    /\ Len(combined) = Len(out.rows)
    /\ out' = explode_rows(SetColumn(out, COMBINED, [i \in 1..Len(combined) |-> List(combined[i])]),
                           COMBINED)
    /\ out_is_df' = FALSE
    /\ pc' = "filter"
    /\ UNCHANGED <<args, df, candidate_columns, flagged, split_cols, combined, ci, err, ret>>

\* lines 126-127
FilterEmpty ==
    /\ op = "explode"
    /\ pc = "filter"
    /\ out' = IF ~keep_empty_rows THEN filter_notna(out, COMBINED) ELSE out
    /\ out_is_df' = IF ~keep_empty_rows THEN FALSE ELSE out_is_df
    /\ pc' = "unpack"
    /\ UNCHANGED <<args, df, candidate_columns, flagged, split_cols, combined, ci, err, ret>>

\* lines 129-137: out[c] = ... writes into the table out names
Unpack ==
    /\ op = "explode"
    /\ pc = "unpack"
    /\ LET r == unpack(out, columns)
       IN  IF r.raised
           THEN /\ pc' = "raised"
                /\ err' = [kind |-> "ValueError", at |-> "DataFrame", row |-> -1, lengths |-> {}]
                /\ UNCHANGED <<out, df>>
           ELSE /\ out' = r.table
                /\ df' = IF out_is_df THEN r.table ELSE df
                /\ pc' = "drop"
                /\ UNCHANGED err
    /\ UNCHANGED <<args, out_is_df, candidate_columns, flagged, split_cols, combined, ci, ret>>

\* lines 139-140
ReturnExploded ==
    /\ op = "explode"
    /\ pc = "drop"
    /\ out' = DropColumn(out, COMBINED)
    /\ out_is_df' = FALSE
    /\ ret' = out'
    /\ pc' = "done"
    /\ UNCHANGED <<args, df, candidate_columns, flagged, split_cols, combined, ci, err>>

NextExplode ==
    \/ SplitColumns
    \/ CombineRow
    \/ AssignExplode
    \/ FilterEmpty
    \/ Unpack
    \/ ReturnExploded

SpecExplode == InitExplode /\ [][NextExplode]_vars

---------------------------------------------------------------------------
(* Claims about explode_aligned_columns *)

Returned == pc = "done"
Raised == pc = "raised"
Finished == Returned \/ Raised

\* the selection is non-empty and names only columns of the table
ValidSelection ==
    columns # <<>> /\ \A k \in 1..Len(columns) : columns[k] \in Range(df.cols)

\* the token sequence of row i (from 1) in column c
T(i, c) == _split_to_list(df.rows[i][c], sep)

RowLengths(i) == {Len(T(i, columns[k])) : k \in 1..Len(columns)}

RowMaxLen(i) == Max(RowLengths(i) \cup {0})

Unequal(i) == Cardinality(RowLengths(i)) > 1

\* the returned rows that come from input row i, in output order: the id column
\* is never selected and is distinct per input row
BlockOf(i) == SelectSeq(ret.rows, LAMBDA r : r[ID] = df.rows[i][ID])

\* what the claim expects column c to hold at tuple position p of row i
ExpectedAt(i, p, c) == IF p <= Len(T(i, c)) THEN Str(T(i, c)[p]) ELSE NA

\* C1: in padding mode, the values of a selected column c in the output rows of
\* an input row are the tokens of the cell, in order, followed by missing values
\* up to the longest token sequence among the selected columns of that row.
C1_PaddingKeepsTokens ==
    (op = "explode" /\ Returned /\ ~strict_equal_lengths /\ ValidSelection) =>
        \A i \in 1..Len(df.rows) : \A k \in 1..Len(columns) :
            RowMaxLen(i) >= 1 =>
                /\ columns[k] \in Range(ret.cols)
                /\ [j \in 1..Len(BlockOf(i)) |-> BlockOf(i)[j][columns[k]]]
                       = [p \in 1..RowMaxLen(i) |-> ExpectedAt(i, p, columns[k])]

\* C2: in strict mode, a table with a row whose selected token sequences differ
\* in length never gets past that row, returns no table, and the error raised
\* names an offending row and the set of its distinct lengths.
C2_StrictRaises ==
    (op = "explode" /\ strict_equal_lengths /\ ValidSelection
        /\ \E i \in 1..Len(df.rows) : Unequal(i)) =>
        LET first == Min({i \in 1..Len(df.rows) : Unequal(i)})
        IN  /\ pc \in {"split", "combine", "raised"}
            /\ Len(combined) < first
            /\ ret = NoValue
            /\ Raised => /\ err.kind = "ValueError"
                         /\ err.at = "_combine_row"
                         /\ err.row + 1 \in 1..Len(df.rows)
                         /\ Unequal(err.row + 1)
                         /\ err.lengths = RowLengths(err.row + 1)

C2_Witness ==
    /\ op = "explode"
    /\ Raised
    /\ strict_equal_lengths
    /\ err.kind = "ValueError"
    /\ err.row = 1
    /\ err.lengths = {1, 2}
    /\ Len(combined) = 1
    /\ combined[1] # <<>>
    /\ ret = NoValue

\* C3: a row none of whose selected cells yields a token gives no output row when
\* keep_empty_rows is false and exactly one when it is true, the original row with
\* every selected column missing; the call succeeds either way.
C3_EmptyRows ==
    (op = "explode" /\ Finished /\ ValidSelection
        /\ ~(strict_equal_lengths /\ \E i \in 1..Len(df.rows) : Unequal(i))
        /\ \E i \in 1..Len(df.rows) : RowMaxLen(i) = 0) =>
        /\ Returned
        /\ \A i \in 1..Len(df.rows) :
              RowMaxLen(i) = 0 =>
                  BlockOf(i) = IF keep_empty_rows
                               THEN <<[c \in DOMAIN df.rows[i] |->
                                         IF c \in Range(columns) THEN NA ELSE df.rows[i][c]]>>
                               ELSE <<>>

\* every selected column has exactly n tokens in every row
Uniform(n) ==
    \A i \in 1..Len(df.rows) : \A k \in 1..Len(columns) : Len(T(i, columns[k])) = n

\* C4: when every selected column has exactly n >= 1 tokens in every row, the call
\* returns n rows per input row, each holding in every unselected column the value
\* of the input row.
C4_RowCountLaw ==
    (op = "explode" /\ ValidSelection /\ df.rows # <<>>) =>
        LET n == Len(T(1, columns[1]))
        IN  (n >= 1 /\ Uniform(n)) =>
                /\ ~Raised
                /\ Returned =>
                      /\ Len(ret.rows) = n * Len(df.rows)
                      /\ \A i \in 1..Len(df.rows) :
                            /\ Len(BlockOf(i)) = n
                            /\ \A j \in 1..Len(BlockOf(i)) :
                                  \A c \in Range(df.cols) \ Range(columns) :
                                      /\ c \in Range(ret.cols)
                                      /\ BlockOf(i)[j][c] = df.rows[i][c]

\* C5: with a single selected column, every returned cell of that column is the
\* token itself (a string) or missing, never a tuple or a list.
C5_SingleColumnScalar ==
    (op = "explode" /\ Returned /\ ValidSelection /\ Len(columns) = 1) =>
        \A j \in 1..Len(ret.rows) : ret.rows[j][columns[1]].tag \in {"str", "na"}

\* the content of a cell, a one-element tuple read as its element
Unwrap(v) == IF v.tag = "tuple" /\ Len(v.items) = 1 THEN v.items[1] ELSE v

\* the input row a returned row comes from
Origin(j) == CHOOSE i \in 1..Len(df.rows) : df.rows[i][ID] = ret.rows[j][ID]

\* returned row j holds the tuple of position p of its input row, in the
\* selected columns the returned table has
HoldsPosition(j, p) ==
    \A k \in 1..Len(columns) :
        columns[k] \in Range(ret.cols) =>
            Unwrap(ret.rows[j][columns[k]]) = ExpectedAt(Origin(j), p, columns[k])

\* C6: the returned rows are ordered by input row first and by tuple position
\* second.
C6_RowOrder ==
    (op = "explode" /\ Returned /\ ValidSelection) =>
        \A j1, j2 \in 1..Len(ret.rows) :
            j1 < j2 =>
                \/ Origin(j1) < Origin(j2)
                \/ /\ Origin(j1) = Origin(j2)
                   /\ \E p1, p2 \in 1..RowMaxLen(Origin(j1)) :
                         /\ p1 < p2
                         /\ HoldsPosition(j1, p1)
                         /\ HoldsPosition(j2, p2)

C6_Witness ==
    /\ op = "explode"
    /\ Returned
    /\ columns = <<X, Y>>
    /\ Len(df.rows) = 2
    /\ RowMaxLen(1) = 2
    /\ RowMaxLen(2) = 2
    /\ Len(ret.rows) = 4
    /\ HoldsPosition(3, 1)
    /\ HoldsPosition(4, 2)

\* C7: a selection that is empty or names a column the table lacks makes the call
\* fail with the missing-column error before any row is processed, and no table is
\* returned.
C7_BadSelectionFails ==
    (op = "explode" /\ Finished /\ ~ValidSelection) =>
        /\ Raised
        /\ err.kind = "KeyError"
        /\ combined = <<>>
        /\ ret = NoValue

\* the number of delimiters in the raw cell of row i, column c
Delimiters(i, c) ==
    IF isna(df.rows[i][c]) THEN 0
    ELSE Cardinality({p \in 1..Len(str(df.rows[i][c])) : str(df.rows[i][c])[p] = sep})

\* the number of pieces of the raw cell of row i, column c that are not blank
NonBlank(i, c) ==
    IF isna(df.rows[i][c]) THEN 0
    ELSE LET parts == split(str(df.rows[i][c]), sep)
         IN  Cardinality({p \in 1..Len(parts) : strip(parts[p]) # <<>>})

\* the selected cells of row i differ in their number of non-blank pieces
NonBlankDiffer(i) ==
    \E k1, k2 \in 1..Len(columns) : NonBlank(i, columns[k1]) # NonBlank(i, columns[k2])

\* C13: in strict mode the check of a row compares the numbers of non-blank
\* pieces of its selected cells, not their delimiter counts: a row passes exactly
\* when these numbers are equal, then gives that many tuples (and output rows),
\* and the call fails in the row check when some row's numbers differ.
C13_StrictCountsTokens ==
    (op = "explode" /\ strict_equal_lengths /\ ValidSelection) =>
        /\ \A i \in 1..Len(combined) :
              /\ ~NonBlankDiffer(i)
              /\ Len(combined[i]) = NonBlank(i, columns[1])
        /\ err.at = "_combine_row" => NonBlankDiffer(err.row + 1)
        /\ Finished /\ (\E i \in 1..Len(df.rows) : NonBlankDiffer(i)) => err.at = "_combine_row"
        /\ Returned => \A i \in 1..Len(df.rows) :
                          NonBlank(i, columns[1]) >= 1 =>
                              Len(BlockOf(i)) = NonBlank(i, columns[1])

\* row 1, "a,,b" against "a, b", has passed the check with two tuples; row 2,
\* "," against "a, b", has failed it
C13_Witness ==
    /\ op = "explode"
    /\ strict_equal_lengths
    /\ columns = <<X, Y>>
    /\ Len(df.rows) = 2
    /\ Delimiters(1, X) = 2 /\ Delimiters(1, Y) = 1
    /\ Len(combined) = 1
    /\ Len(combined[1]) = 2
    /\ Delimiters(2, X) = 1 /\ Delimiters(2, Y) = 1
    /\ Raised
    /\ err.at = "_combine_row"
    /\ err.row = 1

\* C14: the post-filter of the row aligner removes no tuple: for every row that
\* has been aligned, in padding mode and in strict mode, the number of tuples is
\* the largest token count among the selected cells of the row, so a row has
\* no tuple only when none of its selected cells yields a token.
C14_FilterRemovesNothing ==
    (op = "explode" /\ \A k \in 1..Len(columns) : columns[k] \in Range(df.cols)) =>
        \A i \in 1..Len(combined) :
            /\ Len(combined[i]) = RowMaxLen(i)
            /\ combined[i] = <<>> => \A k \in 1..Len(columns) : T(i, columns[k]) = <<>>

\* padding mode, "a" against "a, b": two tuples, the second with a None in it
C14_Witness ==
    /\ op = "explode"
    /\ ~strict_equal_lengths
    /\ columns = <<X, Y>>
    /\ Len(combined) >= 1
    /\ Len(T(1, X)) = 1
    /\ Len(T(1, Y)) = 2
    /\ Len(combined[1]) = 2
    /\ isna(combined[1][2].items[1])

\* C15: whatever the columns of the input table are called, a call that
\* returns gives a table with the input's column names in the input's order: the
\* temporary column "_combined" is not among them unless the input had it, and
\* every input column that is not selected is there with its values.
C15_ColumnsPreserved ==
    (op = "explode" /\ Returned) =>
        /\ ret.cols = df.cols
        /\ \A j \in 1..Len(ret.rows) :
              \A c \in Range(df.cols) \ Range(columns) :
                  /\ c \in DOMAIN ret.rows[j]
                  /\ ret.rows[j][c] = df.rows[Origin(j)][c]

---------------------------------------------------------------------------
(* one_hot_multivalue_columns *)

XA == <<"X", "_", "_", "a">>

\* code points, for the order sorted() puts strings in
ord(ch) ==
    CASE ch = " " -> 32
      [] ch = "," -> 44
      [] ch = "X" -> 88
      [] ch = "Y" -> 89
      [] ch = "_" -> 95
      [] ch = "a" -> 97
      [] ch = "b" -> 98

\* s < t for Python strings
RECURSIVE StrLess(_, _)
StrLess(s, t) ==
    IF t = <<>> THEN FALSE
    ELSE IF s = <<>> THEN TRUE
    ELSE IF Head(s) # Head(t) THEN ord(Head(s)) < ord(Head(t))
    ELSE StrLess(Tail(s), Tail(t))

\* sorted(S) for a set of strings
RECURSIVE sorted(_)
sorted(S) ==
    IF S = {} THEN <<>>
    ELSE LET m == CHOOSE m \in S : \A t \in S \ {m} : StrLess(m, t)
         IN  <<m>> \o sorted(S \ {m})

\* the cells the target column X of an input table holds: missing, "a", "a,a",
\* "a b" and "a_b,a b"
HotCells ==
    { NA,
      Str(<<"a">>),
      Str(<<"a", ",", "a">>),
      Str(<<"a", " ", "b">>),
      Str(<<"a", "_", "b", ",", "a", " ", "b">>) }

\* the tables given to one_hot: columns X, Y and a column named X__a
HotTables ==
    UNION { { [cols |-> <<X, Y, XA>>,
               rows |-> [i \in 1..n |->
                           (X :> xs[i]) @@ (Y :> ys[i]) @@ (XA :> Str(<<"b">>))]] :
              xs \in [1..n -> HotCells], ys \in [1..n -> {NA, Str(<<"a">>)}] } :
            n \in 0..MaxHotRows }

HotColumns == { <<>>, <<X>>, <<X, Y>>, <<W>> }

\* prefix_map as the set of its (column, prefix) items
HotPrefixMaps == { {}, {<<Y, X>>} }

\* prefix_map.get(col, col)
prefix_of(pm, col) ==
    IF \E e \in pm : e[1] = col THEN (CHOOSE e \in pm : e[1] = col)[2] ELSE col

\* f"{pref}__{t}".replace(" ", "_")
col_name(pref, t) == replace(pref \o <<"_", "_">> \o t, " ", "_")

\* how often t occurs in the list L
Occurrences(L, t) == Cardinality({p \in 1..Len(L) : L[p] = t})

\* lines 159-162: counts[t] over the whole column, every occurrence counted
RECURSIVE counts(_, _)
counts(tokens, t) ==
    IF tokens = <<>> THEN 0 ELSE Occurrences(Head(tokens), t) + counts(Tail(tokens), t)

\* line 163: keep
keep(tokens, m) ==
    {t \in UNION {Range(tokens[i]) : i \in 1..Len(tokens)} : counts(tokens, t) >= m}

\* line 167: tokens.apply(lambda L, tok=t: int(tok in L))
indicator(tokens, t) ==
    [i \in 1..Len(tokens) |-> IntCell(IF t \in Range(tokens[i]) THEN <<"1">> ELSE <<"0">>)]

\* lines 165-167: one indicator column per kept token, in sorted order
RECURSIVE add_indicators(_, _, _, _)
add_indicators(t, tokens, pref, order) ==
    IF order = <<>> THEN t
    ELSE add_indicators(SetColumn(t, col_name(pref, Head(order)), indicator(tokens, Head(order))),
                        tokens, pref, Tail(order))

\* lines 157-167: the body of the loop for one target column
one_hot_column(t, col, d, m, pm) ==
    LET tokens == [i \in 1..Len(t.rows) |-> _split_to_list(t.rows[i][col], d)]
    IN  add_indicators(t, tokens, prefix_of(pm, col), sorted(keep(tokens, m)))

InitOneHot ==
    /\ op = "one_hot"
    /\ df \in HotTables
    /\ columns \in HotColumns
    /\ sep = DefaultSep
    /\ keep_empty_rows = FALSE
    /\ strict_equal_lengths = FALSE
    /\ min_count \in 0..MaxMinCount
    /\ prefix_map \in HotPrefixMaps
    /\ min_share = DefaultMinShare
    /\ candidate_columns = NoCandidates
    /\ flagged = <<>>
    /\ toks = <<>>
    /\ pc = "copy"
    /\ split_cols = <<>>
    /\ combined = <<>>
    /\ ci = 0
    /\ out = NoTable
    /\ out_is_df = FALSE
    /\ err = NoErr
    /\ ret = NoValue

\* lines 154-155
HotCopy ==
    /\ op = "one_hot"
    /\ pc = "copy"
    /\ out' = copy(df).table
    /\ out_is_df' = copy(df).same
    /\ pc' = "loop"
    /\ UNCHANGED <<args, df, candidate_columns, flagged, split_cols, combined, ci, err, ret>>

\* lines 156-167, one iteration: out[col] raises KeyError on a name that is no
\* column, out[col_name] = ... writes into the table out names
HotColumn ==
    /\ op = "one_hot"
    /\ pc = "loop"
    /\ ci < Len(columns)
    /\ LET col == columns[ci + 1]
       IN  IF col \notin Range(out.cols)
           THEN /\ pc' = "raised"
                /\ err' = [kind |-> "KeyError", at |-> "tokens", row |-> -1, lengths |-> {}]
                /\ UNCHANGED <<out, df, ci>>
           ELSE /\ out' = one_hot_column(out, col, sep, min_count, prefix_map)
                /\ df' = IF out_is_df THEN out' ELSE df
                /\ ci' = ci + 1
                /\ UNCHANGED <<pc, err>>
    /\ UNCHANGED <<args, out_is_df, candidate_columns, flagged, split_cols, combined, ret>>

\* line 168
HotReturn ==
    /\ op = "one_hot"
    /\ pc = "loop"
    /\ ci = Len(columns)
    /\ ret' = out
    /\ pc' = "done"
    /\ UNCHANGED <<args, df, out_is_df, candidate_columns, flagged, split_cols, combined, ci, out, err>>

NextOneHot == HotCopy \/ HotColumn \/ HotReturn

SpecOneHot == InitOneHot /\ [][NextOneHot]_vars

---------------------------------------------------------------------------
(* Claims about one_hot_multivalue_columns *)

\* the token sequence of input row i in column c
HotT(i, c) == _split_to_list(df.rows[i][c], sep)

\* occurrences of t in column c over the whole input table
TotalCount(c, t) ==
    Cardinality({<<i, p>> \in (1..Len(df.rows)) \X (1..7) :
                    p <= Len(HotT(i, c)) /\ HotT(i, c)[p] = t})

TokensIn(c) == UNION {Range(HotT(i, c)) : i \in 1..Len(df.rows)}

\* C8: for one target column and min_count = m, a token with fewer than m
\* occurrences (every occurrence counted) gets no indicator column, and a token
\* with m or more gets one whose value in each row is 1 when the row's token
\* sequence contains the token and 0 otherwise.
C8_ThresholdLaw ==
    (op = "one_hot" /\ Returned /\ Len(columns) = 1) =>
        LET c == columns[1]
        IN  \A t \in TokensIn(c) :
                LET name == col_name(prefix_of(prefix_map, c), t)
                IN  IF TotalCount(c, t) >= min_count
                    THEN /\ name \in Range(ret.cols)
                         /\ \A i \in 1..Len(df.rows) :
                               ret.rows[i][name] =
                                   IntCell(IF t \in Range(HotT(i, c)) THEN <<"1">> ELSE <<"0">>)
                    ELSE name \notin Range(ret.cols) \ Range(df.cols)

\* C9: the returned table has the input's rows in order and, under every input
\* column name, exactly the input's values.
C9_OriginalsUntouched ==
    (op = "one_hot" /\ Returned) =>
        /\ Len(ret.rows) = Len(df.rows)
        /\ \A k \in 1..Len(df.cols) :
              /\ df.cols[k] \in Range(ret.cols)
              /\ \A i \in 1..Len(df.rows) : ret.rows[i][df.cols[k]] = df.rows[i][df.cols[k]]

---------------------------------------------------------------------------
(* The two transforms and the caller's table *)

InitTransforms == InitExplode \/ InitOneHot

NextTransforms == NextExplode \/ NextOneHot

\* a call of explode_aligned_columns or of one_hot_multivalue_columns
SpecTransforms == InitTransforms /\ [][NextTransforms]_vars

\* C12: no step of explode or of one_hot, in a call that returns or in one that
\* raises, changes the columns, the rows or a cell of the caller's table, and the
\* table returned is another object than the caller's.
C12_InputUntouched ==
    [][/\ df' = df
       /\ pc' = "done" => ~out_is_df']_vars

\* one_hot has returned a table with indicator columns the caller's table lacks
C12_Witness ==
    /\ op = "one_hot"
    /\ Returned
    /\ ~out_is_df
    /\ Len(df.rows) = 2
    /\ Len(ret.cols) > Len(df.cols)
    /\ \E c \in Range(ret.cols) : c \notin Range(df.cols)

---------------------------------------------------------------------------
(* detect_multivalue_columns *)

\* the cells column X of a table given to detect holds: missing, "a" and "a,a"
DetectCells == { NA, Str(<<"a">>), Str(<<"a", ",", "a">>) }

\* the tables given to detect: an int column id, a column X of strings and
\* missing values, and a column Y that holds no value at all, of dtype object
\* (None) or float64 (NaN)
DetectTables ==
    UNION { { [cols |-> <<ID, X, Y>>,
               rows |-> [i \in 1..n |->
                           (ID :> IntCell(<<Digits[i]>>)) @@ (X :> xs[i]) @@ (Y :> NA)],
               dtypes |-> (ID :> "int64") @@ (X :> "object") @@ (Y :> dy)] :
              xs \in [1..n -> DetectCells], dy \in {"object", "float64"} } :
            n \in 0..MaxDetectRows }

DetectCandidates ==
    { NoCandidates, Candidates(<<X>>), Candidates(<<Y, X>>), Candidates(<<ID, Y>>),
      Candidates(<<X, W>>) }

MinShares == { Frac(0, 1), DefaultMinShare, Frac(1, 2), Frac(1, 1) }

\* line 33: [c for c in df.columns if df[c].dtype == "object"]
object_columns(t) == SelectSeq(t.cols, LAMBDA c : t.dtypes[c] = "object")

\* line 37: df[c].dropna().astype(str)
dropna_astype_str(t, c) ==
    LET kept == SelectSeq(Column(t, c), LAMBDA v : ~isna(v))
    IN  [i \in 1..Len(kept) |-> str(kept[i])]

\* s.str.contains(sep, regex=False) for one value, sep one character
contains(x, d) == d \in Range(x)

\* line 38: the mean of the booleans, 0.0 for an empty series
share(s, d) ==
    IF Len(s) # 0
    THEN Frac(Cardinality({i \in 1..Len(s) : contains(s[i], d)}), Len(s))
    ELSE Frac(0, 1)

\* a >= b for fractions
AtLeast(a, b) == a.num * b.den >= b.num * a.den

InitDetect ==
    /\ op = "detect"
    /\ df \in DetectTables
    /\ candidate_columns \in DetectCandidates
    /\ sep = DefaultSep
    /\ min_share \in MinShares
    /\ columns = <<>>
    /\ keep_empty_rows = FALSE
    /\ strict_equal_lengths = FALSE
    /\ min_count = 0
    /\ prefix_map = {}
    /\ toks = <<>>
    /\ pc = "candidates"
    /\ split_cols = <<>>
    /\ combined = <<>>
    /\ ci = 0
    /\ flagged = <<>>
    /\ out = NoTable
    /\ out_is_df = FALSE
    /\ err = NoErr
    /\ ret = NoValue

\* lines 32-35
DetectDefault ==
    /\ op = "detect"
    /\ pc = "candidates"
    /\ candidate_columns' = IF ~candidate_columns.given
                            THEN Candidates(object_columns(df))
                            ELSE candidate_columns
    /\ flagged' = <<>>
    /\ pc' = "scan"
    /\ UNCHANGED <<args, df, out_is_df, split_cols, combined, ci, out, err, ret>>

\* lines 36-40, one iteration: df[c] raises KeyError on a name that is no column
DetectColumn ==
    /\ op = "detect"
    /\ pc = "scan"
    /\ ci < Len(candidate_columns.names)
    /\ LET c == candidate_columns.names[ci + 1]
       IN  IF c \notin Range(df.cols)
           THEN /\ pc' = "raised"
                /\ err' = [kind |-> "KeyError", at |-> "s", row |-> -1, lengths |-> {}]
                /\ UNCHANGED <<flagged, ci>>
           ELSE /\ flagged' = IF AtLeast(share(dropna_astype_str(df, c), sep), min_share)
                              THEN Append(flagged, c)
                              ELSE flagged
                /\ ci' = ci + 1
                /\ UNCHANGED <<pc, err>>
    /\ UNCHANGED <<args, df, out_is_df, candidate_columns, split_cols, combined, out, ret>>

\* line 41
DetectReturn ==
    /\ op = "detect"
    /\ pc = "scan"
    /\ ci = Len(candidate_columns.names)
    /\ ret' = flagged
    /\ pc' = "done"
    /\ UNCHANGED <<args, df, out_is_df, candidate_columns, flagged, split_cols, combined, ci, out, err>>

NextDetect == DetectDefault \/ DetectColumn \/ DetectReturn

SpecDetect == InitDetect /\ [][NextDetect]_vars

---------------------------------------------------------------------------
(* Claims about detect_multivalue_columns *)

\* the number of non-missing values of column c of the input table
NonMissing(c) == Cardinality({i \in 1..Len(df.rows) : ~isna(df.rows[i][c])})

\* C11: whatever min_share in [0, 1] is, 0 included, a candidate column without a
\* single non-missing value is never put in the result.
C11_EmptyNeverFlagged ==
    op = "detect" =>
        /\ \A k \in 1..Len(flagged) : NonMissing(flagged[k]) > 0
        /\ pc = "done" => \A k \in 1..Len(ret) : NonMissing(ret[k]) > 0

====
